---- MODULE Spec2Model ----
(***************************************************************************)
(* Model of the tree-planting priority server (src/app/api/server.js).     *)
(*                                                                         *)
(* The server keeps five location records in memory, each with a derived   *)
(* score s_cpi = computeSCPI(metrics).  POST /api/chat forwards the user   *)
(* message to a completion service and, when the reply is a cooling report *)
(* naming a known place, bumps that record's CCS and recomputes its s_cpi. *)
(* GET /api/locations returns the records sorted by s_cpi descending.      *)
(*                                                                         *)
(* JavaScript numbers are IEEE-754 binary64 values.  The model carries     *)
(* them as sign, 53-bit significand and binary exponent, and rounds every  *)
(* arithmetic result to nearest, ties to even, the way the language does.  *)
(* Significands do not fit TLC's integers, so they are kept as sequences   *)
(* of limbs.                                                               *)
(***************************************************************************)
EXTENDS Integers, Sequences, FiniteSets, TLC

(***************************************************************************)
(* Natural numbers of any size: little-endian limbs below Radix, with no   *)
(* most-significant zero limb; zero is the empty sequence.  A value that   *)
(* is used more than once is passed as an operator argument rather than    *)
(* named in a LET, because TLC evaluates an argument once and a LET        *)
(* definition at every use.                                                *)
(***************************************************************************)
Radix == 2^14

RECURSIVE SmallBitLen(_)
SmallBitLen(x) == IF x = 0 THEN 0 ELSE 1 + SmallBitLen(x \div 2)

LimbBits == SmallBitLen(Radix - 1)

RECURSIVE TrimLen(_, _)
TrimLen(a, n) ==
  IF n = 0 THEN 0 ELSE IF a[n] = 0 THEN TrimLen(a, n - 1) ELSE n

\* a without its most-significant zero limbs
Trim(a) == SubSeq(a, 1, TrimLen(a, Len(a)))

RECURSIVE NatOf(_)
NatOf(n) == IF n = 0 THEN <<>> ELSE <<n % Radix>> \o NatOf(n \div Radix)

Limb(a, i) == IF i \in DOMAIN a THEN a[i] ELSE 0

MaxOf(x, y) == IF x >= y THEN x ELSE y

MinOf(x, y) == IF x <= y THEN x ELSE y

\* the limbs of the number whose i-th limb, before carrying, is cols[i]
RECURSIVE CarryFrom(_, _, _)
CarryStep(cols, i, s) == <<s % Radix>> \o CarryFrom(cols, i + 1, s \div Radix)

CarryFrom(cols, i, c) ==
  IF i > Len(cols)
  THEN (IF c = 0 THEN <<>> ELSE <<c % Radix>> \o CarryFrom(cols, i, c \div Radix))
  ELSE CarryStep(cols, i, cols[i] + c)

BAdd(a, b) ==
  CarryFrom([i \in 1..MaxOf(Len(a), Len(b)) |-> Limb(a, i) + Limb(b, i)], 1, 0)

RECURSIVE SubFrom(_, _, _, _)
SubStep(a, b, i, s) ==
  IF s < 0
  THEN <<s + Radix>> \o SubFrom(a, b, i + 1, 1)
  ELSE <<s>> \o SubFrom(a, b, i + 1, 0)

SubFrom(a, b, i, c) ==
  IF i > Len(a) THEN <<>> ELSE SubStep(a, b, i, Limb(a, i) - Limb(b, i) - c)

\* a - b, for a >= b
BSub(a, b) == Trim(SubFrom(a, b, 1, 0))

RECURSIVE CmpFrom(_, _, _)
CmpFrom(a, b, i) ==
  IF i = 0 THEN 0
  ELSE IF a[i] > b[i] THEN 1
  ELSE IF a[i] < b[i] THEN -1
  ELSE CmpFrom(a, b, i - 1)

\* -1, 0 or 1 as a < b, a = b, a > b
BCmp(a, b) ==
  IF Len(a) > Len(b) THEN 1
  ELSE IF Len(a) < Len(b) THEN -1
  ELSE CmpFrom(a, b, Len(a))

\* a * d, for 0 <= d < Radix
BMulSmall(a, d) ==
  IF d = 0 THEN <<>> ELSE CarryFrom([i \in DOMAIN a |-> a[i] * d], 1, 0)

\* a * b, for a and b of at most four limbs (a significand has four)
BMul(a, b) ==
  IF a = <<>> \/ b = <<>> THEN <<>>
  ELSE CarryFrom([k \in 1..(Len(a) + Len(b) - 1) |->
                    Limb(a, 1) * Limb(b, k) + Limb(a, 2) * Limb(b, k - 1)
                      + Limb(a, 3) * Limb(b, k - 2) + Limb(a, 4) * Limb(b, k - 3)],
                 1, 0)

\* the long division of a by d from limb i down, with r the remainder and
\* q the quotient limbs of the limbs above i
RECURSIVE DivSmallFrom(_, _, _, _, _)
DivSmallStep(a, d, i, t, q) ==
  DivSmallFrom(a, d, i - 1, t % d, <<t \div d>> \o q)

DivSmallFrom(a, d, i, r, q) ==
  IF i = 0 THEN [q |-> Trim(q), r |-> r]
  ELSE DivSmallStep(a, d, i, r * Radix + a[i], q)

\* quotient and remainder of a by d, for 0 < d < Radix
BDivSmall(a, d) == DivSmallFrom(a, d, Len(a), 0, <<>>)

Zeros(n) == [i \in 1..n |-> 0]

ShlLimbs(a, r, up) ==
  Trim([i \in 1..(Len(a) + 1) |->
          (Limb(a, i) % 2^up) * 2^r + (Limb(a, i - 1) \div 2^up)])

\* a * 2^n
BShl(a, n) ==
  IF a = <<>> THEN <<>>
  ELSE Zeros(n \div LimbBits)
         \o ShlLimbs(a, n % LimbBits, LimbBits - (n % LimbBits))

ShrLimbs(a, k, r) ==
  Trim([i \in 1..(Len(a) - k) |->
          (a[i + k] \div 2^r) + (Limb(a, i + k + 1) % 2^r) * 2^(LimbBits - r)])

\* floor(a / 2^n)
BShr(a, n) ==
  IF n \div LimbBits >= Len(a) THEN <<>>
  ELSE ShrLimbs(a, n \div LimbBits, n % LimbBits)

\* bit n of a (bit 0 is the least significant)
BBit(a, n) == (Limb(a, n \div LimbBits + 1) \div 2^(n % LimbBits)) % 2

\* whether a is a multiple of 2^n
BLowZero(a, n) ==
  /\ \A i \in 1..(n \div LimbBits) : Limb(a, i) = 0
  /\ Limb(a, n \div LimbBits + 1) % 2^(n % LimbBits) = 0

\* number of bits of a; 0 for zero
BitLen(a) ==
  IF a = <<>> THEN 0 ELSE LimbBits * (Len(a) - 1) + SmallBitLen(a[Len(a)])

(***************************************************************************)
(* JavaScript Number: IEEE-754 binary64.  A value is sgn * m * 2^e with m  *)
(* of exactly Precision bits, or zero.  The magnitudes the server handles  *)
(* stay far from overflow and from the subnormal range, and no operation   *)
(* of the server tells -0 from +0 (Math.max(0, -0) is +0), so neither is   *)
(* modelled.                                                               *)
(***************************************************************************)
Precision == 53

Zero == [sgn |-> 1, m |-> <<>>, e |-> 0]

IsZero(x) == x.m = <<>>

\* a significand that rounding up has carried to Precision + 1 bits is
\* brought back to Precision
Renormalize(sgn, m, e) ==
  IF BitLen(m) > Precision
  THEN [sgn |-> sgn, m |-> BShr(m, 1), e |-> e + 1]
  ELSE [sgn |-> sgn, m |-> m, e |-> e]

\* q = floor(n / 2^s) rounded to nearest, ties to even
RoundCut(sgn, n, e, sticky, s, q) ==
  Renormalize(sgn,
              IF /\ BBit(n, s - 1) = 1
                 /\ (sticky \/ ~BLowZero(n, s - 1) \/ BBit(q, 0) = 1)
              THEN BAdd(q, <<1>>)
              ELSE q,
              e + s)

RoundBits(sgn, n, e, sticky, len) ==
  IF len <= Precision
  THEN [sgn |-> sgn, m |-> BShl(n, Precision - len), e |-> e - (Precision - len)]
  ELSE RoundCut(sgn, n, e, sticky, len - Precision, BShr(n, len - Precision))

\* sgn * (n + d) * 2^e rounded to nearest, ties to even, where 0 <= d < 1 and
\* d > 0 exactly when sticky; a sticky n has more than Precision bits
RoundSticky(sgn, n, e, sticky) ==
  IF n = <<>> THEN Zero ELSE RoundBits(sgn, n, e, sticky, BitLen(n))

Round(sgn, n, e) == RoundSticky(sgn, n, e, FALSE)

Abs(n) == IF n < 0 THEN -n ELSE n

Sign(n) == IF n < 0 THEN -1 ELSE 1

\* the Number an integer literal denotes
FromInt(n) == Round(Sign(n), NatOf(Abs(n)), 0)

RoundQuotient(sgn, t, e) == RoundSticky(sgn, t.q, e, t.r # 0)

\* the Number nearest to n / d, for 0 < d < Radix: what a decimal literal
\* such as 0.4 (4 / 10) or 0.85 (85 / 100) denotes
FromRatio(n, d) ==
  RoundQuotient(Sign(n), BDivSmall(BShl(NatOf(Abs(n)), 6 * LimbBits), d),
                -(6 * LimbBits))

FAddMagnitudes(sa, a, sb, b, e) ==
  IF sa = sb THEN Round(sa, BAdd(a, b), e)
  ELSE IF BCmp(a, b) >= 0 THEN Round(sa, BSub(a, b), e)
  ELSE Round(sb, BSub(b, a), e)

FAddAt(x, y, e) ==
  FAddMagnitudes(x.sgn, BShl(x.m, x.e - e), y.sgn, BShl(y.m, y.e - e), e)

\* x + y
FAdd(x, y) ==
  IF IsZero(x) THEN y
  ELSE IF IsZero(y) THEN x
  ELSE FAddAt(x, y, MinOf(x.e, y.e))

FNeg(x) == IF IsZero(x) THEN x ELSE [x EXCEPT !.sgn = -x.sgn]

\* x - y
FSub(x, y) == FAdd(x, FNeg(y))

\* x * y
FMul(x, y) == Round(x.sgn * y.sgn, BMul(x.m, y.m), x.e + y.e)

\* x / d for an integer 0 < d < Radix
FDivInt(x, d) ==
  RoundQuotient(x.sgn, BDivSmall(BShl(x.m, 2 * LimbBits), d),
                x.e - 2 * LimbBits)

\* the order of the magnitudes of two Numbers that are not zero
CmpMagnitudes(x, y, e) == BCmp(BShl(x.m, x.e - e), BShl(y.m, y.e - e))

\* x < y
FLt(x, y) ==
  IF IsZero(x) THEN ~IsZero(y) /\ y.sgn = 1
  ELSE IF IsZero(y) THEN x.sgn = -1
  ELSE IF x.sgn # y.sgn THEN x.sgn = -1
  ELSE IF x.sgn = 1 THEN CmpMagnitudes(x, y, MinOf(x.e, y.e)) < 0
  ELSE CmpMagnitudes(x, y, MinOf(x.e, y.e)) > 0

FLe(x, y) == ~FLt(y, x)

MathMin(x, y) == IF FLt(y, x) THEN y ELSE x

MathMax(x, y) == IF FLt(x, y) THEN y ELSE x

\* Math.round: the integer nearest to x, a tie going towards +Infinity
MathRound(x) ==
  IF IsZero(x) \/ x.e >= 0 THEN x
  ELSE Round(x.sgn,
             IF /\ BBit(x.m, -x.e - 1) = 1
                /\ (x.sgn = 1 \/ ~BLowZero(x.m, -x.e - 1))
             THEN BAdd(BShr(x.m, -x.e), <<1>>)
             ELSE BShr(x.m, -x.e),
             0)

(***************************************************************************)
(* JavaScript strings are sequences of one-character strings, so that      *)
(* toLowerCase, includes and JSON.parse can look inside them.              *)
(***************************************************************************)

UpperCase ==
  <<"A", "B", "C", "D", "E", "F", "G", "H", "I", "J", "K", "L", "M", "N",
  "O", "P", "Q", "R", "S", "T", "U", "V", "W", "X", "Y", "Z">>

LowerCase ==
  <<"a", "b", "c", "d", "e", "f", "g", "h", "i", "j", "k", "l", "m", "n",
  "o", "p", "q", "r", "s", "t", "u", "v", "w", "x", "y", "z">>

Digits ==
  <<"0", "1", "2", "3", "4", "5", "6", "7", "8", "9">>

N_Monastiraki ==
  <<"M", "o", "n", "a", "s", "t", "i", "r", "a", "k", "i">>

N_Syntagma ==
  <<"S", "y", "n", "t", "a", "g", "m", "a", " ", "S", "q", "u", "a", "r",
  "e">>

N_Panathenaic ==
  <<"P", "a", "n", "a", "t", "h", "e", "n", "a", "i", "c", " ", "S", "t",
  "a", "d", "i", "u", "m">>

N_Acropolis ==
  <<"A", "c", "r", "o", "p", "o", "l", "i", "s", " ", "o", "f", " ", "A",
  "t", "h", "e", "n", "s">>

N_NationalGarden ==
  <<"N", "a", "t", "i", "o", "n", "a", "l", " ", "G", "a", "r", "d", "e",
  "n">>

S_cooling_problem ==
  <<"c", "o", "o", "l", "i", "n", "g", "_", "p", "r", "o", "b", "l", "e",
  "m">>

S_none ==
  <<"n", "o", "n", "e">>

S_high ==
  <<"h", "i", "g", "h">>

S_medium ==
  <<"m", "e", "d", "i", "u", "m">>

S_low ==
  <<"l", "o", "w">>

S_null ==
  <<"n", "u", "l", "l">>

S_true ==
  <<"t", "r", "u", "e">>

S_false ==
  <<"f", "a", "l", "s", "e">>

K_reply ==
  <<"r", "e", "p", "l", "y">>

K_placeName ==
  <<"p", "l", "a", "c", "e", "N", "a", "m", "e">>

K_reportType ==
  <<"r", "e", "p", "o", "r", "t", "T", "y", "p", "e">>

K_reportIntensity ==
  <<"r", "e", "p", "o", "r", "t", "I", "n", "t", "e", "n", "s", "i", "t",
  "y">>

S_apology ==
  <<"S", "o", "r", "r", "y", ",", " ", "I", " ", "c", "o", "u", "l", "d",
  "n", "'", "t", " ", "r", "e", "a", "c", "h", " ", "t", "h", "e", " ", "A",
  "I", " ", "s", "e", "r", "v", "e", "r", ".", " ", "P", "l", "e", "a", "s",
  "e", " ", "t", "r", "y", " ", "a", "g", "a", "i", "n", " ", "l", "a", "t",
  "e", "r", ".">>

S_comma ==
  <<",", " ">>

IndexIn(seq, c) == CHOOSE i \in DOMAIN seq : seq[i] = c

\* the lower-case letter of each upper-case letter
LowerOf ==
  [c \in {UpperCase[k] : k \in DOMAIN UpperCase} |->
     LowerCase[IndexIn(UpperCase, c)]]

\* String.prototype.toLowerCase, on the ASCII letters
toLowerCase(s) ==
  [i \in DOMAIN s |-> IF s[i] \in DOMAIN LowerOf THEN LowerOf[s[i]] ELSE s[i]]

(***************************************************************************)
(* JavaScript values, tagged with their type.  An object is the sequence   *)
(* of its <<key, value>> properties in insertion order.                    *)
(***************************************************************************)
Null == [t |-> "null"]

Undefined == [t |-> "undefined"]

Str(s) == [t |-> "string", v |-> s]

Num(x) == [t |-> "number", v |-> x]

Bool(b) == [t |-> "boolean", v |-> b]

Obj(props) == [t |-> "object", props |-> props]

\* whether reading a property of v throws a TypeError
ThrowsOnGet(v) == v.t \in {"null", "undefined"}

\* v[key] for a v that is neither null nor undefined; a primitive has none
\* of the properties the handler reads
Get(v, key) ==
  IF v.t = "object" /\ \E i \in DOMAIN v.props : v.props[i][1] = key
  THEN LET k == CHOOSE i \in DOMAIN v.props :
                  /\ v.props[i][1] = key
                  /\ \A j \in DOMAIN v.props : v.props[j][1] = key => j <= i
       IN  v.props[k][2]
  ELSE Undefined

\* ToBoolean
Truthy(v) ==
  CASE v.t \in {"null", "undefined"} -> FALSE
    [] v.t = "string"  -> v.v # <<>>
    [] v.t = "number"  -> ~IsZero(v.v)
    [] v.t = "boolean" -> v.v
    [] OTHER -> TRUE

\* a === b, where at most one side is an object
StrictEq(a, b) ==
  /\ a.t = b.t
  /\ a.t # "object"
  /\ a.t \in {"string", "number", "boolean"} => a.v = b.v

(***************************************************************************)
(* JSON.parse over the JSON texts the completion service is drawn to       *)
(* return: null, true, false, unsigned integers, strings with the escapes  *)
(* \" and \\, and objects of these.  A result is [ok, val, pos], pos the   *)
(* index after the value; ok = FALSE is the SyntaxError.                   *)
(***************************************************************************)
SyntaxError == [ok |-> FALSE]

IsWhitespace(c) == c \in {" ", "\t", "\n", "\r"}

RECURSIVE SkipWs(_, _)
SkipWs(s, i) ==
  IF i <= Len(s) /\ IsWhitespace(s[i]) THEN SkipWs(s, i + 1) ELSE i

StartsWith(s, i, w) ==
  /\ i + Len(w) - 1 <= Len(s)
  /\ \A k \in DOMAIN w : s[i + k - 1] = w[k]

IsDigit(c) == \E k \in DOMAIN Digits : Digits[k] = c

DigitValue(c) == IndexIn(Digits, c) - 1

RECURSIVE ParseDigits(_, _, _)
ParseDigits(s, i, acc) ==
  IF i <= Len(s) /\ IsDigit(s[i])
  THEN ParseDigits(s, i + 1, 10 * acc + DigitValue(s[i]))
  ELSE [ok |-> TRUE, val |-> Num(FromInt(acc)), pos |-> i]

\* s[i] is the first character after the opening quote
RECURSIVE ParseChars(_, _, _)
ParseChars(s, i, acc) ==
  IF i > Len(s) THEN SyntaxError
  ELSE IF s[i] = "\"" THEN [ok |-> TRUE, val |-> Str(acc), pos |-> i + 1]
  ELSE IF s[i] = "\\"
  THEN IF i + 1 <= Len(s) /\ s[i + 1] \in {"\"", "\\"}
       THEN ParseChars(s, i + 2, Append(acc, s[i + 1]))
       ELSE SyntaxError
  ELSE ParseChars(s, i + 1, Append(acc, s[i]))

RECURSIVE ParseValue(_, _)
RECURSIVE ParseMembers(_, _, _)
\* s[i] is where a "key": value member is expected
ParseMembers(s, i, acc) ==
  LET k == SkipWs(s, i)
  IN  IF k > Len(s) \/ s[k] # "\"" THEN SyntaxError
      ELSE LET key   == ParseChars(s, k + 1, <<>>)
               colon == IF key.ok THEN SkipWs(s, key.pos) ELSE 0
           IN  IF ~key.ok \/ colon > Len(s) \/ s[colon] # ":" THEN SyntaxError
               ELSE LET v    == ParseValue(s, colon + 1)
                        next == IF v.ok THEN SkipWs(s, v.pos) ELSE 0
                        all  == Append(acc, <<key.val.v, v.val>>)
                    IN  IF ~v.ok \/ next > Len(s) THEN SyntaxError
                        ELSE IF s[next] = "}"
                        THEN [ok |-> TRUE, val |-> Obj(all), pos |-> next + 1]
                        ELSE IF s[next] = ","
                        THEN ParseMembers(s, next + 1, all)
                        ELSE SyntaxError

ParseValue(s, i) ==
  LET k == SkipWs(s, i)
  IN  IF k > Len(s) THEN SyntaxError
      ELSE IF StartsWith(s, k, S_null)
      THEN [ok |-> TRUE, val |-> Null, pos |-> k + Len(S_null)]
      ELSE IF StartsWith(s, k, S_true)
      THEN [ok |-> TRUE, val |-> Bool(TRUE), pos |-> k + Len(S_true)]
      ELSE IF StartsWith(s, k, S_false)
      THEN [ok |-> TRUE, val |-> Bool(FALSE), pos |-> k + Len(S_false)]
      ELSE IF IsDigit(s[k]) THEN ParseDigits(s, k, 0)
      ELSE IF s[k] = "\"" THEN ParseChars(s, k + 1, <<>>)
      ELSE IF s[k] = "{"
      THEN LET m == SkipWs(s, k + 1)
           IN  IF m <= Len(s) /\ s[m] = "}"
               THEN [ok |-> TRUE, val |-> Obj(<<>>), pos |-> m + 1]
               ELSE ParseMembers(s, k + 1, <<>>)
      ELSE SyntaxError

\* JSON.parse of the text s
JSONParse(s) ==
  LET r == ParseValue(s, 1)
  IN  IF r.ok /\ SkipWs(s, r.pos) > Len(s)
      THEN [ok |-> TRUE, val |-> r.val]
      ELSE SyntaxError

(***************************************************************************)
(* Location data: RAW_LOCATIONS, computeSCPI and the store LOCATIONS.      *)
(***************************************************************************)
Location(id, name, lat, lon, info, lst, ndvi, pop, ccs, feas, air) ==
  [id     |-> id,
   name   |-> name,
   coords |-> <<FromRatio(lat, 10000), FromRatio(lon, 10000)>>,
   info   |-> info,
   metrics |->
     [LST               |-> FromInt(lst),
      NDVI              |-> FromInt(ndvi),
      PopulationDensity |-> FromInt(pop),
      CCS               |-> FromInt(ccs),
      FeasibilityScore  |-> FromRatio(feas, 100),
      AirQuality        |-> FromInt(air)]]

\* coordinates in 1/10000 degree and FeasibilityScore in 1/100, as the
\* decimal literals of the source spell them
RAW_LOCATIONS ==
  << Location(1, N_Monastiraki, 379760, 237258,
              "Dense, highly built-up area with limited street tree cover.",
              98, 1, 92, 85, 80, 70),
     Location(2, N_Syntagma, 379755, 237348,
              "Central square with heavy traffic and heat-island effects.",
              82, 20, 88, 80, 90, 65),
     Location(3, N_Panathenaic, 379680, 237410,
              "Large open area with some potential for perimeter greening.",
              75, 45, 70, 60, 85, 60),
     Location(4, N_Acropolis, 379715, 237267,
              "Historic area; limited planting but high exposure to heat.",
              80, 35, 65, 55, 60, 68),
     Location(5, N_NationalGarden, 379732, 237370,
              "Already quite green; relatively lower additional need.",
              60, 20, 50, 45, 70, 55) >>

Hundred == FromInt(100)

Ten == FromInt(10)

\* the weights 0.4, 0.3, 0.2 and 0.1 of computeSCPI
WeightLST == FromRatio(4, 10)

WeightNDVI == FromRatio(3, 10)

WeightPopulationDensity == FromRatio(2, 10)

WeightCCS == FromRatio(1, 10)

\* the score without Math.round(s_cpi * 10) / 10
computeSCPIUnrounded(m) ==
  LET base ==
        FAdd(FAdd(FAdd(FMul(WeightLST, m.LST),
                       FMul(WeightNDVI, FSub(Hundred, m.NDVI))),
                  FMul(WeightPopulationDensity, m.PopulationDensity)),
             FMul(WeightCCS, m.CCS))
  IN  MathMax(Zero, MathMin(Hundred, FMul(base, m.FeasibilityScore)))

\* function computeSCPI(m)
computeSCPI(m) ==
  LET base ==
        FAdd(FAdd(FAdd(FMul(WeightLST, m.LST),
                       FMul(WeightNDVI, FSub(Hundred, m.NDVI))),
                  FMul(WeightPopulationDensity, m.PopulationDensity)),
             FMul(WeightCCS, m.CCS))
      s_cpi == FMul(base, m.FeasibilityScore)
  IN  MathMax(Zero,
              MathMin(Hundred, FDivInt(MathRound(FMul(s_cpi, Ten)), 10)))

\* the store as the module builds it when it is loaded
LoadedLocations ==
  [i \in DOMAIN RAW_LOCATIONS |->
     [id      |-> RAW_LOCATIONS[i].id,
      name    |-> RAW_LOCATIONS[i].name,
      coords  |-> RAW_LOCATIONS[i].coords,
      info    |-> RAW_LOCATIONS[i].info,
      metrics |-> RAW_LOCATIONS[i].metrics,
      s_cpi   |-> computeSCPI(RAW_LOCATIONS[i].metrics)]]

PLACE_NAMES == [i \in DOMAIN LoadedLocations |-> LoadedLocations[i].name]

RECURSIVE Join(_, _)
\* Array.prototype.join
Join(parts, sep) ==
  IF parts = <<>> THEN <<>>
  ELSE IF Len(parts) = 1 THEN parts[1]
  ELSE parts[1] \o sep \o Join(Tail(parts), sep)

PLACE_NAMES_TEXT == Join(PLACE_NAMES, S_comma)

\* the value of an integral Number below 2^30, as an integer
ToInteger(x) ==
  LET n == IF x.e >= 0 THEN BShl(x.m, x.e) ELSE BShr(x.m, -x.e)
  IN  x.sgn * (Limb(n, 1) + Radix * Limb(n, 2))

RECURSIVE DigitsOf(_)
DigitsOf(n) ==
  IF n < 10 THEN <<Digits[n + 1]>>
  ELSE Append(DigitsOf(n \div 10), Digits[(n % 10) + 1])

\* Number::toString of a Number that is the nearest one to k / 10 for an
\* integer 0 <= k: the shortest decimal that reads back as x, which is the
\* integer part and, unless it is zero, one fractional digit
NumberToString(x) ==
  LET k == ToInteger(MathRound(FMul(x, FromInt(10))))
  IN  IF k % 10 = 0 THEN DigitsOf(k \div 10)
      ELSE DigitsOf(k \div 10) \o <<".">> \o DigitsOf(k % 10)

\* the lines `- ${l.name}: S_CPI ${l.s_cpi}` of the prompt, as name and text
ScoreLines(locations) ==
  [i \in DOMAIN locations |->
     <<locations[i].name, NumberToString(locations[i].s_cpi)>>]

\* the parts of the system prompt that depend on the store; the template
\* is evaluated once, when the module is loaded
SYSTEM_PROMPT ==
  [scores |-> ScoreLines(LoadedLocations), placeNames |-> PLACE_NAMES_TEXT]

(***************************************************************************)
(* What the completion service can answer.  The service is outside the     *)
(* repository: the call rejects, or resolves with a content string, drawn  *)
(* here from texts that take each path of the handler.                     *)
(***************************************************************************)
Quoted(s) == <<"\"">> \o s \o <<"\"">>

\* the JSON text of a reply object, from the JSON texts of three members
ReplyText(placeName, reportType, reportIntensity) ==
  <<"{">> \o Quoted(K_reply) \o <<":">> \o Quoted(<<"o", "k">>)
    \o <<",">> \o Quoted(K_placeName) \o <<":">> \o placeName
    \o <<",">> \o Quoted(K_reportType) \o <<":">> \o reportType
    \o <<",">> \o Quoted(K_reportIntensity) \o <<":">> \o reportIntensity
    \o <<"}">>

Report(placeName, reportIntensity) ==
  ReplyText(placeName, Quoted(S_cooling_problem), reportIntensity)

S_plainText ==
  <<"S", "u", "r", "e", "!">>

S_acropolis ==
  <<"a", "c", "r", "o", "p", "o", "l", "i", "s">>

S_extreme ==
  <<"e", "x", "t", "r", "e", "m", "e">>

Contents ==
  { S_plainText,                                         \* not JSON
    S_null,                                              \* JSON null
    Quoted(S_plainText),                                 \* a JSON string
    Report(<<"4", "2">>, Quoted(S_high)),                \* placeName a number
    ReplyText(Quoted(N_Syntagma), Quoted(S_none), S_null),
    Report(S_null, Quoted(S_low)),
    Report(Quoted(<<>>), Quoted(S_low)),
    Report(Quoted(S_acropolis), Quoted(S_high)),         \* a substring
    Report(Quoted(N_Monastiraki), Quoted(S_high)),
    Report(Quoted(toLowerCase(N_Acropolis)), Quoted(S_medium)),
    Report(Quoted(N_NationalGarden), Quoted(S_low)),
    Report(Quoted(N_NationalGarden), S_null) }

\* JSON.parse of each of these texts, computed once
ParsedContents == [c \in Contents |-> JSONParse(c)]

JSONParseOnce(s) ==
  IF s \in DOMAIN ParsedContents THEN ParsedContents[s] ELSE JSONParse(s)

Completions ==
  {[kind |-> "reject"]} \cup {[kind |-> "content", raw |-> c] : c \in Contents}

(***************************************************************************)
(* The routes.                                                             *)
(***************************************************************************)
VARIABLES
  LOCATIONS,   \* the store: the module-level array of location records
  inFlight,    \* chat requests suspended at the await of the completion call
  outbound,    \* the last request sent to the completion service
  last,        \* the last HTTP exchange completed: what came back from the
               \* completion service (chat) and the response sent
  nReports,    \* reports applied to the store so far
  probe        \* a call of the scoring functions on their own (ScoreSpec)

vars == <<LOCATIONS, inFlight, outbound, last, nReports, probe>>

\* b.s_cpi - a.s_cpi, the comparator of the sort in GET /api/locations
Compare(a, b) == FSub(b.s_cpi, a.s_cpi)

IsPositive(x) == ~IsZero(x) /\ x.sgn = 1

\* x placed before the elements that compare equal to it
InsertSortedBeforeTies(sorted, x) ==
  LET after == {i \in DOMAIN sorted : ~IsPositive(Compare(x, sorted[i]))}
      k     == IF after = {} THEN Len(sorted) + 1
               ELSE CHOOSE i \in after : \A j \in after : i <= j
  IN  SubSeq(sorted, 1, k - 1) \o <<x>> \o SubSeq(sorted, k, Len(sorted))

\* x placed after every element the comparator does not order after it
InsertSorted(sorted, x) ==
  LET after == {i \in DOMAIN sorted : IsPositive(Compare(sorted[i], x))}
      k     == IF after = {} THEN Len(sorted) + 1
               ELSE CHOOSE i \in after : \A j \in after : i <= j
  IN  SubSeq(sorted, 1, k - 1) \o <<x>> \o SubSeq(sorted, k, Len(sorted))

RECURSIVE SortFrom(_, _, _)
SortFrom(a, i, sorted) ==
  IF i > Len(a) THEN sorted ELSE SortFrom(a, i + 1, InsertSorted(sorted, a[i]))

\* [...LOCATIONS].sort((a, b) => b.s_cpi - a.s_cpi): Array.prototype.sort
\* is stable
SortedLocations(locations) == SortFrom(locations, 1, <<>>)

\* the switch on parsed.reportIntensity
DeltaHigh == FromInt(2)

DeltaMedium == FromInt(1)

DeltaLow == FromRatio(1, 10)

\* the switch with 'low' and the default lowering CCS
DeltaLowAsDecrease(reportIntensity) ==
  IF StrictEq(reportIntensity, Str(S_high)) THEN DeltaHigh
  ELSE IF StrictEq(reportIntensity, Str(S_medium)) THEN DeltaMedium
  ELSE FNeg(DeltaLow)

\* the switch with its default taken for 'medium'
DeltaUnknownAsMedium(reportIntensity) ==
  IF StrictEq(reportIntensity, Str(S_high)) THEN DeltaHigh
  ELSE IF StrictEq(reportIntensity, Str(S_low)) THEN DeltaLow
  ELSE DeltaMedium

Delta(reportIntensity) ==
  IF StrictEq(reportIntensity, Str(S_high)) THEN DeltaHigh
  ELSE IF StrictEq(reportIntensity, Str(S_medium)) THEN DeltaMedium
  ELSE DeltaLow

\* CCS + delta without the clamp
BumpCCSUnclamped(ccs, delta) == FAdd(ccs, delta)

\* Math.max(0, Math.min(100, CCS + delta))
BumpCCS(ccs, delta) == MathMax(Zero, MathMin(Hundred, FAdd(ccs, delta)))

\* the CCS update without the recomputation of s_cpi
ApplyReportStale(locations, i, reportIntensity) ==
  [locations EXCEPT ![i].metrics.CCS = BumpCCS(@, Delta(reportIntensity))]

\* the update made on every record instead of the one found
ApplyReportToAll(locations, i, reportIntensity) ==
  [j \in DOMAIN locations |->
     LET metrics == [locations[j].metrics EXCEPT
                       !.CCS = BumpCCS(@, Delta(reportIntensity))]
     IN  [locations[j] EXCEPT !.metrics = metrics,
                              !.s_cpi = computeSCPI(metrics)]]

\* the update computed from the CCS the record had when the module was
\* loaded, as a handler would that read CCS before its await
ApplyReportFromLoaded(locations, i, reportIntensity) ==
  LET metrics == [locations[i].metrics EXCEPT
                    !.CCS = BumpCCS(LoadedLocations[i].metrics.CCS,
                                    Delta(reportIntensity))]
  IN  [locations EXCEPT ![i].metrics = metrics,
                        ![i].s_cpi = computeSCPI(metrics)]

\* loc.metrics.CCS = ...; loc.s_cpi = computeSCPI(loc.metrics) on record i
ApplyReport(locations, i, reportIntensity) ==
  LET metrics == [locations[i].metrics EXCEPT
                    !.CCS = BumpCCS(@, Delta(reportIntensity))]
  IN  [locations EXCEPT ![i].metrics = metrics,
                        ![i].s_cpi = computeSCPI(metrics)]

First(S) == IF S = {} THEN 0 ELSE CHOOSE i \in S : \A j \in S : i <= j

\* String.prototype.includes
Includes(s, sub) ==
  \E k \in 0..(Len(s) - Len(sub)) : SubSeq(s, k + 1, k + Len(sub)) = sub

\* a lookup that also accepts a placeName contained in a name, lower-cased
FindLocationBySubstring(locations, placeName) ==
  IF placeName.t # "string" THEN [threw |-> TRUE, index |-> 0]
  ELSE [threw |-> FALSE,
        index |-> First({i \in DOMAIN locations :
                           Includes(toLowerCase(locations[i].name),
                                    toLowerCase(placeName.v))})]

\* LOCATIONS.find(exact) || LOCATIONS.find(case-insensitive), as the index
\* found (0 for undefined); the second find calls toLowerCase on placeName
\* and throws when placeName is not a string
FindLocation(locations, placeName) ==
  LET exact == First({i \in DOMAIN locations :
                        StrictEq(Str(locations[i].name), placeName)})
  IN  IF exact # 0 THEN [threw |-> FALSE, index |-> exact]
      ELSE IF placeName.t # "string" THEN [threw |-> TRUE, index |-> 0]
      ELSE [threw |-> FALSE,
            index |-> First({i \in DOMAIN locations :
                               toLowerCase(locations[i].name)
                                 = toLowerCase(placeName.v)})]

ApologyBody ==
  Obj(<< <<K_reply, Str(S_apology)>>,
         <<K_placeName, Null>>,
         <<K_reportType, Str(S_none)>>,
         <<K_reportIntensity, Null>> >>)

\* the catch answering without res.status(500)
ErrorResultWithStatus200(locations) ==
  [status |-> 200, body |-> ApologyBody, locations |-> locations,
   applied |-> FALSE]

\* the catch block
ErrorResult(locations) ==
  [status |-> 500, body |-> ApologyBody, locations |-> locations,
   applied |-> FALSE]

\* the handler answering a report before it has updated the record
OnContentAnsweringFirst(locations, raw) ==
  LET json   == JSONParseOnce(raw)
      parsed == IF json.ok THEN json.val
                ELSE Obj(<< <<K_reply, Str(raw)>>, <<K_placeName, Null>> >>)
  IN  IF ThrowsOnGet(parsed) THEN ErrorResult(locations)
      ELSE IF ~(/\ Truthy(Get(parsed, K_placeName))
                /\ StrictEq(Get(parsed, K_reportType), Str(S_cooling_problem)))
      THEN [status |-> 200, body |-> parsed, locations |-> locations,
            applied |-> FALSE]
      ELSE LET loc == FindLocation(locations, Get(parsed, K_placeName))
           IN  IF loc.threw THEN ErrorResult(locations)
               ELSE [status |-> 200, body |-> parsed, locations |-> locations,
                     applied |-> loc.index # 0]

\* the handler from `const raw = ...` to res.json(parsed), with the catch
OnContent(locations, raw) ==
  LET json   == JSONParseOnce(raw)
      parsed == IF json.ok THEN json.val
                ELSE Obj(<< <<K_reply, Str(raw)>>, <<K_placeName, Null>> >>)
  IN  IF ThrowsOnGet(parsed) THEN ErrorResult(locations)
      ELSE IF ~(/\ Truthy(Get(parsed, K_placeName))
                /\ StrictEq(Get(parsed, K_reportType), Str(S_cooling_problem)))
      THEN [status |-> 200, body |-> parsed, locations |-> locations,
            applied |-> FALSE]
      ELSE LET loc == FindLocation(locations, Get(parsed, K_placeName))
           IN  IF loc.threw THEN ErrorResult(locations)
               ELSE IF loc.index = 0
               THEN [status |-> 200, body |-> parsed, locations |-> locations,
                     applied |-> FALSE]
               ELSE [status |-> 200, body |-> parsed,
                     locations |-> ApplyReport(locations, loc.index,
                                               Get(parsed, K_reportIntensity)),
                     applied |-> TRUE]

\* the handler after the await: the completion call rejected or resolved
OnCompletion(locations, up) ==
  IF up.kind = "reject" THEN ErrorResult(locations)
  ELSE OnContent(locations, up.raw)

\* bounds of the exploration
MaxReports == 9

MaxInFlight == 2

NoExchange == [kind |-> "none"]

Init ==
  /\ LOCATIONS = LoadedLocations
  /\ inFlight = 0
  /\ outbound = [kind |-> "none"]
  /\ last = NoExchange
  /\ nReports = 0
  /\ probe = [call |-> "none"]

\* GET /api/locations sorting LOCATIONS itself, not a copy of it
GetLocationsSortingInPlace ==
  /\ LOCATIONS' = SortedLocations(LOCATIONS)
  /\ last' = [kind |-> "locations", status |-> 200, body |-> LOCATIONS']
  /\ UNCHANGED <<inFlight, outbound, nReports, probe>>

\* GET /api/locations
GetLocations ==
  /\ last' = [kind |-> "locations", status |-> 200,
              body |-> SortedLocations(LOCATIONS)]
  /\ UNCHANGED <<LOCATIONS, inFlight, outbound, nReports, probe>>

\* POST /api/chat up to the await: the request to the completion service
\* carries SYSTEM_PROMPT and the user's message, which the handler does not
\* look at
ChatStart ==
  /\ inFlight < MaxInFlight
  /\ nReports + inFlight < MaxReports
  /\ inFlight' = inFlight + 1
  /\ outbound' = [kind |-> "completion", system |-> SYSTEM_PROMPT]
  /\ UNCHANGED <<LOCATIONS, last, nReports, probe>>

\* POST /api/chat from the await on: one suspended request runs to its
\* response in one turn of the event loop
ChatResume ==
  /\ inFlight > 0
  /\ \E up \in Completions :
       \E r \in {OnCompletion(LOCATIONS, up)} :
         /\ LOCATIONS' = r.locations
         /\ last' = [kind |-> "chat", up |-> up, status |-> r.status,
                     body |-> r.body]
         /\ nReports' = IF r.applied THEN nReports + 1 ELSE nReports
  /\ inFlight' = inFlight - 1
  /\ UNCHANGED <<outbound, probe>>

Next == GetLocations \/ ChatStart \/ ChatResume

Spec == Init /\ [][Next]_vars

(***************************************************************************)
(* The scoring functions on their own: computeSCPI, and the CCS update of  *)
(* a report, applied to metrics written as decimal literals.  The server's *)
(* variables stay as they are after loading.                               *)
(***************************************************************************)
ProbeLST == {60, 98}

ProbeNDVI == {1, 20, 400}

ProbePopulationDensity == {50, 92}

\* CCS in tenths
ProbeCCS == {0, 550, 850, 995}

\* FeasibilityScore in hundredths
ProbeFeasibilityScore == {70, 80, 150}

\* values parsed.reportIntensity can have
Intensities ==
  {Str(S_high), Str(S_medium), Str(S_low), Str(S_extreme), Null, Undefined}

MaxProbeReports == 2

ProbeMetrics(in) ==
  [LST               |-> FromInt(in.LST),
   NDVI              |-> FromInt(in.NDVI),
   PopulationDensity |-> FromInt(in.PopulationDensity),
   CCS               |-> FromRatio(in.CCS, 10),
   FeasibilityScore  |-> FromRatio(in.FeasibilityScore, 100),
   AirQuality        |-> FromInt(60)]

ProbeInputs ==
  [LST : ProbeLST, NDVI : ProbeNDVI,
   PopulationDensity : ProbePopulationDensity, CCS : ProbeCCS,
   FeasibilityScore : ProbeFeasibilityScore]

ScoreInit ==
  /\ LOCATIONS = LoadedLocations
  /\ inFlight = 0
  /\ outbound = [kind |-> "none"]
  /\ last = NoExchange
  /\ nReports = 0
  /\ \E in \in ProbeInputs :
       probe = [call |-> "input", in |-> in, metrics |-> ProbeMetrics(in),
                n |-> 0]

\* computeSCPI(metrics)
Score ==
  /\ probe.call \in {"input", "bumped"}
  /\ probe' = [call |-> "scored", in |-> probe.in, metrics |-> probe.metrics,
               n |-> probe.n, s_cpi |-> computeSCPI(probe.metrics)]
  /\ UNCHANGED <<LOCATIONS, inFlight, outbound, last, nReports>>

\* the switch and the CCS update of one report
Bump ==
  /\ probe.call \in {"input", "bumped"}
  /\ probe.n < MaxProbeReports
  /\ \E reportIntensity \in Intensities :
       probe' = [call |-> "bumped", in |-> probe.in,
                 metrics |-> [probe.metrics EXCEPT
                                !.CCS = BumpCCS(@, Delta(reportIntensity))],
                 n |-> probe.n + 1, before |-> probe.metrics.CCS,
                 reportIntensity |-> reportIntensity]
  /\ UNCHANGED <<LOCATIONS, inFlight, outbound, last, nReports>>

ScoreNext == Score \/ Bump

ScoreSpec == ScoreInit /\ [][ScoreNext]_vars

(***************************************************************************)
(* Properties.                                                             *)
(***************************************************************************)
\* a step in which one chat request runs from the await to its response
ChatEnds == inFlight' = inFlight - 1

\* the reply object of a chat exchange whose content parsed
HasReply(x) ==
  /\ x.kind = "chat"
  /\ x.up.kind = "content"
  /\ JSONParseOnce(x.up.raw).ok
  /\ JSONParseOnce(x.up.raw).val.t = "object"

ReplyOf(x) == JSONParseOnce(x.up.raw).val

\* the records a placeName names, exactly or case-insensitively
Named(placeName) ==
  IF placeName.t # "string" THEN {}
  ELSE {i \in DOMAIN RAW_LOCATIONS :
          toLowerCase(RAW_LOCATIONS[i].name) = toLowerCase(placeName.v)}

IsReport(reply) ==
  /\ Get(reply, K_reportType) = Str(S_cooling_problem)
  /\ Get(reply, K_placeName).t = "string"
  /\ Get(reply, K_placeName).v # <<>>

\* the delta the intensity of a report stands for
DeltaOf(reportIntensity) ==
  IF reportIntensity = Str(S_high) THEN FromInt(2)
  ELSE IF reportIntensity = Str(S_medium) THEN FromInt(1)
  ELSE FromRatio(1, 10)

Clamp(x) == IF FLt(x, Zero) THEN Zero ELSE IF FLt(Hundred, x) THEN Hundred ELSE x

\* C1: in every reachable state each record's s_cpi is computeSCPI of that
\* record's current metrics, in the store and in every list of locations a
\* GET has answered with
ScoreIsCurrent ==
  /\ \A i \in DOMAIN LOCATIONS :
       LOCATIONS[i].s_cpi = computeSCPI(LOCATIONS[i].metrics)
  /\ last.kind = "locations" =>
       \A i \in DOMAIN last.body :
         last.body[i].s_cpi = computeSCPI(last.body[i].metrics)

\* a GET answered after reports were applied, with a chat request in flight
ScoreIsCurrentWitness ==
  /\ last.kind = "locations"
  /\ nReports >= 2
  /\ inFlight > 0
  /\ LOCATIONS[1].metrics.CCS = FromInt(87)
  /\ LOCATIONS[1].s_cpi = FromRatio(768, 10)

\* C2: every request sent to the completion service lists the place names
\* and the s_cpi values the store holds when the request is sent
PromptCarriesLiveScores ==
  [][inFlight' = inFlight + 1 =>
       /\ outbound'.kind = "completion"
       /\ outbound'.system.placeNames
            = Join([i \in DOMAIN LOCATIONS |-> LOCATIONS[i].name], S_comma)
       /\ outbound'.system.scores = ScoreLines(LOCATIONS)]_vars

\* C3: when the completion call rejects, the request answers 500 with the
\* fixed body, no record changes, and the other requests in flight stay in
\* flight
UpstreamFailureAnswers500 ==
  [][(ChatEnds /\ last'.up.kind = "reject") =>
       /\ last'.status = 500
       /\ last'.body.t = "object"
       /\ Len(last'.body.props) = 4
       /\ Get(last'.body, K_reply) = Str(S_apology)
       /\ Get(last'.body, K_placeName) = Null
       /\ Get(last'.body, K_reportType) = Str(S_none)
       /\ Get(last'.body, K_reportIntensity) = Null
       /\ LOCATIONS' = LOCATIONS
       /\ outbound' = outbound]_vars

\* a rejected call answered after reports, with another request in flight
UpstreamFailureWitness ==
  /\ last.kind = "chat"
  /\ last.up.kind = "reject"
  /\ last.status = 500
  /\ nReports > 0
  /\ inFlight > 0

\* the content is valid JSON of the expected shape
WellShaped(raw) ==
  /\ JSONParseOnce(raw).ok
  /\ JSONParseOnce(raw).val.t = "object"
  /\ Get(JSONParseOnce(raw).val, K_placeName).t \in {"string", "null"}

\* C4: a completion whose content is not valid JSON of the expected shape
\* is answered with 200 and changes no record
MalformedContentAnswers200 ==
  [][(ChatEnds /\ last'.up.kind = "content" /\ ~WellShaped(last'.up.raw)) =>
       /\ last'.status = 200
       /\ LOCATIONS' = LOCATIONS]_vars

\* C5: every record's CCS is in [0,100], and a report on a record whose CCS
\* plus the report's delta is 100 or more leaves that CCS at exactly 100
CCSStaysInRange ==
  /\ [](\A i \in DOMAIN LOCATIONS :
          /\ FLe(Zero, LOCATIONS[i].metrics.CCS)
          /\ FLe(LOCATIONS[i].metrics.CCS, Hundred))
  /\ [][(ChatEnds /\ HasReply(last')) =>
          \A reply \in {ReplyOf(last')} :
            IsReport(reply) =>
              \A i \in Named(Get(reply, K_placeName)) :
                FLe(Hundred,
                    FAdd(LOCATIONS[i].metrics.CCS,
                         DeltaOf(Get(reply, K_reportIntensity)))) =>
                  LOCATIONS'[i].metrics.CCS = Hundred]_vars

\* Monastiraki, at 99 after seven 'high' reports, taken to 100 by the eighth
CCSSaturatesWitness ==
  /\ HasReply(last)
  /\ Get(ReplyOf(last), K_placeName) = Str(N_Monastiraki)
  /\ nReports = 8
  /\ LOCATIONS[1].metrics.CCS = Hundred

\* placeName is null, empty or a string that is no record's name
Unresolved(placeName) ==
  \/ placeName = Null
  \/ placeName.t = "string" /\ Named(placeName) = {}

\* C6: a reply whose placeName is null, empty or no record's name, exactly
\* or case-insensitively, changes no record and is answered with 200
UnresolvedPlaceChangesNothing ==
  [][(ChatEnds /\ HasReply(last')) =>
       \A reply \in {ReplyOf(last')} :
         Unresolved(Get(reply, K_placeName)) =>
           /\ LOCATIONS' = LOCATIONS
           /\ last'.status = 200
           /\ last'.body = reply]_vars

\* the report on 'acropolis' answered with 200, the store as loaded
UnresolvedPlaceWitness ==
  /\ HasReply(last)
  /\ Get(ReplyOf(last), K_placeName) = Str(S_acropolis)
  /\ Get(ReplyOf(last), K_reportType) = Str(S_cooling_problem)
  /\ last.status = 200
  /\ LOCATIONS = LoadedLocations

\* C7: a step changes at most one record; a cooling_problem reply whose
\* placeName names a record adds the intensity's delta to that record's
\* CCS, clamped, recomputes its s_cpi and leaves the rest as it is; a reply
\* with reportType 'none' changes no record
OneReplyChangesOneRecord ==
  [][/\ Cardinality({i \in DOMAIN LOCATIONS : LOCATIONS'[i] # LOCATIONS[i]})
          <= 1
     /\ (ChatEnds /\ HasReply(last')) =>
          \A reply \in {ReplyOf(last')} :
            /\ IsReport(reply) =>
                 \A named \in {Named(Get(reply, K_placeName))} :
                   \A i \in DOMAIN LOCATIONS :
                     IF i \in named
                     THEN /\ LOCATIONS'[i].metrics.CCS
                               = Clamp(FAdd(LOCATIONS[i].metrics.CCS,
                                            DeltaOf(Get(reply,
                                                        K_reportIntensity))))
                          /\ LOCATIONS'[i].s_cpi
                               = computeSCPI(LOCATIONS'[i].metrics)
                          /\ LOCATIONS'[i].metrics
                               = [LOCATIONS[i].metrics EXCEPT
                                    !.CCS = LOCATIONS'[i].metrics.CCS]
                          /\ [LOCATIONS'[i] EXCEPT !.metrics = 0, !.s_cpi = 0]
                               = [LOCATIONS[i] EXCEPT
                                    !.metrics = 0, !.s_cpi = 0]
                     ELSE LOCATIONS'[i] = LOCATIONS[i]
            /\ Get(reply, K_reportType) = Str(S_none) =>
                 LOCATIONS' = LOCATIONS]_vars

\* the 'medium' report on 'acropolis of athens' applied to record 4 alone
OneRecordWitness ==
  /\ HasReply(last)
  /\ Get(ReplyOf(last), K_placeName) = Str(toLowerCase(N_Acropolis))
  /\ LOCATIONS[4].metrics.CCS = FromInt(56)
  /\ LOCATIONS[4].s_cpi # LoadedLocations[4].s_cpi
  /\ \A j \in DOMAIN LOCATIONS \ {4} : LOCATIONS[j] = LoadedLocations[j]

\* C8: the new CCS is clamp(CCS + delta, 0, 100) with delta 2 for 'high',
\* 1 for 'medium' and 0.1 for 'low' and every other intensity; 85 with
\* 'high' gives 87, 99.5 with 'high' gives 100, 0 with 'low' gives 0.1
DeltaTable ==
  probe.call = "bumped" =>
    /\ probe.metrics.CCS
         = Clamp(FAdd(probe.before,
                      CASE probe.reportIntensity = Str(S_high) -> FromInt(2)
                        [] probe.reportIntensity = Str(S_medium) -> FromInt(1)
                        [] OTHER -> FromRatio(1, 10)))
    /\ (probe.before = FromInt(85) /\ probe.reportIntensity = Str(S_high)) =>
         probe.metrics.CCS = FromInt(87)
    /\ (probe.before = FromRatio(995, 10)
          /\ probe.reportIntensity = Str(S_high)) =>
         probe.metrics.CCS = FromInt(100)
    /\ (probe.before = FromInt(0) /\ probe.reportIntensity = Str(S_low)) =>
         probe.metrics.CCS = FromRatio(1, 10)

\* 99.6, reached from 99.5 by a report of an intensity outside the table,
\* taken to 100 by a 'high' report
DeltaTableWitness ==
  /\ probe.call = "bumped"
  /\ probe.n = 2
  /\ probe.before = FAdd(FromRatio(995, 10), FromRatio(1, 10))
  /\ probe.reportIntensity = Str(S_high)
  /\ probe.metrics.CCS = Hundred

\* (0.4*LST + 0.3*(100 - NDVI) + 0.2*PopulationDensity + 0.1*CCS)
\* * FeasibilityScore in tenths, rounded half up and clamped to 0..1000,
\* for metrics given as integers, CCS in tenths, FeasibilityScore in
\* hundredths
ExactTenths(in) ==
  LET base100 == 40 * in.LST + 30 * (100 - in.NDVI)
                   + 20 * in.PopulationDensity + in.CCS
      rounded == (base100 * in.FeasibilityScore + 500) \div 1000
  IN  IF rounded < 0 THEN 0 ELSE IF rounded > 1000 THEN 1000 ELSE rounded

\* C9: computeSCPI returns the formula's value rounded half up to tenths
\* and clamped to [0,100]
ScoreIsRoundedHalfUp ==
  (probe.call = "scored" /\ probe.n = 0) =>
    probe.s_cpi = FromRatio(ExactTenths(probe.in), 10)

ValidInput(in) ==
  /\ in.LST \in 0..100
  /\ in.NDVI \in 0..100
  /\ in.PopulationDensity \in 0..100
  /\ in.CCS \in 0..1000
  /\ in.FeasibilityScore \in 0..100

\* the Numbers nearest to k / 10 for the integers k of 0..1000
Tenths == {FromRatio(k, 10) : k \in 0..1000}

\* C10: for valid metrics, with CCS as written or as reports have left it,
\* computeSCPI returns a multiple of 0.1 in [0,100]
ScoreHasOneDecimal ==
  (probe.call = "scored" /\ ValidInput(probe.in)) =>
    /\ probe.s_cpi \in Tenths
    /\ FLe(Zero, probe.s_cpi)
    /\ FLe(probe.s_cpi, Hundred)

\* the score 44.7 of valid metrics whose CCS two 'high' reports took from
\* 55 to 59
ScoreHasOneDecimalWitness ==
  /\ probe.call = "scored"
  /\ ValidInput(probe.in)
  /\ probe.n = 2
  /\ probe.in.CCS = 550
  /\ probe.metrics.CCS = FromInt(59)
  /\ probe.s_cpi = FromRatio(447, 10)

(***************************************************************************)
(* GET /api/locations on stores that reports have changed: each record's   *)
(* CCS is its fixture value or a whole number that 'medium' and 'high'     *)
(* reports take it to, among them the values at which the scores of        *)
(* Acropolis of Athens and National Garden are equal.                      *)
(***************************************************************************)
SortCCS ==
  << {85, 100}, {80, 100}, {60, 100}, {55, 85, 86, 100}, {45, 46, 47, 100} >>

\* the store with record i's CCS at ccs[i], as the reports leave it
StoreWith(ccs) ==
  [i \in DOMAIN LoadedLocations |->
     [LoadedLocations[i] EXCEPT
        !.metrics.CCS = FromInt(ccs[i]),
        !.s_cpi = computeSCPI([LoadedLocations[i].metrics EXCEPT
                                 !.CCS = FromInt(ccs[i])])]]

SortInit ==
  /\ \E c1 \in SortCCS[1], c2 \in SortCCS[2], c3 \in SortCCS[3],
        c4 \in SortCCS[4], c5 \in SortCCS[5] :
       LOCATIONS = StoreWith(<<c1, c2, c3, c4, c5>>)
  /\ inFlight = 0
  /\ outbound = [kind |-> "none"]
  /\ last = NoExchange
  /\ nReports = 0
  /\ probe = [call |-> "none"]

SortSpec == SortInit /\ [][GetLocations]_vars

\* C11: GET /api/locations answers with all the records of the store, by
\* s_cpi descending, records of equal s_cpi in the order of the store
SortedDescendingStable ==
  last.kind = "locations" =>
    /\ Len(last.body) = Len(LOCATIONS)
    /\ \A i \in DOMAIN last.body : last.body[i] = LOCATIONS[last.body[i].id]
    /\ \A i, j \in DOMAIN last.body :
         i < j =>
           /\ last.body[i].id # last.body[j].id
           /\ ~FLt(last.body[i].s_cpi, last.body[j].s_cpi)
           /\ last.body[i].s_cpi = last.body[j].s_cpi =>
                last.body[i].id < last.body[j].id

\* Acropolis of Athens and National Garden both at 43.8, answered in the
\* order of the store, which is not their order as loaded
SortedTieWitness ==
  /\ last.kind = "locations"
  /\ LOCATIONS[4].s_cpi = FromRatio(438, 10)
  /\ LOCATIONS[5].s_cpi = FromRatio(438, 10)
  /\ last.body[4].id = 4
  /\ last.body[5].id = 5

(***************************************************************************)
(* The client's lookup of the place a reply names (App.jsx), called on     *)
(* lists of records in any order.                                          *)
(***************************************************************************)
\* locations.find(exact || name includes target || target includes name)
\* || null, as the index found (0 for null)
findLocationFromName(locations, placeName) ==
  IF ~Truthy(placeName) THEN [threw |-> FALSE, index |-> 0]
  ELSE IF placeName.t # "string" THEN [threw |-> TRUE, index |-> 0]
  ELSE [threw |-> FALSE,
        index |-> First({i \in DOMAIN locations :
                           \/ toLowerCase(locations[i].name)
                                = toLowerCase(placeName.v)
                           \/ Includes(toLowerCase(locations[i].name),
                                       toLowerCase(placeName.v))
                           \/ Includes(toLowerCase(placeName.v),
                                       toLowerCase(locations[i].name))})]

S_Acropolis ==
  <<"A", "c", "r", "o", "p", "o", "l", "i", "s">>

S_nonexistent ==
  <<"n", "o", "n", "e", "x", "i", "s", "t", "e", "n", "t", " ",
    "p", "l", "a", "c", "e">>

S_gardenGate ==
  <<"N", "a", "t", "i", "o", "n", "a", "l", " ", "G", "a", "r", "d", "e", "n",
    " ", "g", "a", "t", "e">>

\* names of the records of a list: three of the server's and one that is
\* contained in another
LookupNames == {N_Monastiraki, N_Acropolis, N_NationalGarden, S_Acropolis}

LookupQueries ==
  {Null, Str(<<>>), Str(S_acropolis), Str(N_Acropolis), Str(S_nonexistent),
   Str(S_gardenGate), Str(toLowerCase(N_Monastiraki))}

MaxListLen == 3

\* the lists of records of distinct names, of MaxListLen records at most
LookupLists ==
  UNION {{l \in [1..n -> LookupNames] :
            \A i, j \in 1..n : i # j => l[i] # l[j]} : n \in 0..MaxListLen}

LookupInit ==
  /\ LOCATIONS = LoadedLocations
  /\ inFlight = 0
  /\ outbound = [kind |-> "none"]
  /\ last = NoExchange
  /\ nReports = 0
  /\ \E l \in LookupLists, q \in LookupQueries :
       probe = [call |-> "lookup",
                locations |-> [i \in DOMAIN l |-> [name |-> l[i]]],
                placeName |-> q]

\* findLocationFromName(placeName)
Lookup ==
  /\ probe.call = "lookup"
  /\ probe' = [call |-> "found", locations |-> probe.locations,
               placeName |-> probe.placeName,
               result |-> findLocationFromName(probe.locations,
                                               probe.placeName)]
  /\ UNCHANGED <<LOCATIONS, inFlight, outbound, last, nReports>>

LookupSpec == LookupInit /\ [][Lookup]_vars

\* the records whose name is the query, case-insensitively
ExactMatches(locations, q) ==
  {i \in DOMAIN locations : toLowerCase(locations[i].name) = toLowerCase(q)}

\* the records whose name contains the query or is contained in it
SubstringMatches(locations, q) ==
  {i \in DOMAIN locations :
     \/ Includes(toLowerCase(locations[i].name), toLowerCase(q))
     \/ Includes(toLowerCase(q), toLowerCase(locations[i].name))}

RequestsAreSerialized ==
  [][LOCATIONS' # LOCATIONS => inFlight = 1]_vars

RECURSIVE AppliedFrom(_, _, _)
\* seq continued with the CCS after each of n more reports of delta
AppliedFrom(seq, delta, n) ==
  IF n = 0 THEN seq
  ELSE AppliedFrom(Append(seq, Clamp(FAdd(seq[Len(seq)], delta))),
                   delta, n - 1)

\* the CCS of record i after 0, 1, ... MaxReports reports of one intensity
AppliedTo(i, reportIntensity) ==
  AppliedFrom(<<LoadedLocations[i].metrics.CCS>>, DeltaOf(reportIntensity),
              MaxReports)

\* the reports the completions make: 'high' on Monastiraki, 'medium' on
\* Acropolis of Athens, 'low' or null on National Garden
HighOnMonastiraki == AppliedTo(1, Str(S_high))

MediumOnAcropolis == AppliedTo(4, Str(S_medium))

LowOnNationalGarden == AppliedTo(5, Str(S_low))

\* C14: whatever the interleaving of the requests, each record's CCS is
\* its CCS as loaded with the delta of every report applied to it, each
\* step clamped, the reports applied being nReports in all, and its s_cpi
\* is computeSCPI of its metrics with that CCS
NoLostUpdate ==
  [](\E k1, k4 \in 0..nReports :
       /\ k1 + k4 <= nReports
       /\ LOCATIONS[1].metrics.CCS = HighOnMonastiraki[k1 + 1]
       /\ LOCATIONS[4].metrics.CCS = MediumOnAcropolis[k4 + 1]
       /\ LOCATIONS[5].metrics.CCS
            = LowOnNationalGarden[nReports - k1 - k4 + 1]
       /\ LOCATIONS[2] = LoadedLocations[2]
       /\ LOCATIONS[3] = LoadedLocations[3]
       /\ \A i \in {1, 4, 5} :
            LOCATIONS[i].s_cpi
              = computeSCPI([LoadedLocations[i].metrics EXCEPT
                               !.CCS = LOCATIONS[i].metrics.CCS]))

\* two 'high' reports on Monastiraki both applied, a request in flight
NoLostUpdateWitness ==
  /\ nReports = 2
  /\ inFlight = 1
  /\ HasReply(last)
  /\ Get(ReplyOf(last), K_placeName) = Str(N_Monastiraki)
  /\ LOCATIONS[1].metrics.CCS = FromInt(89)
  /\ LOCATIONS[1].s_cpi = FromRatio(770, 10)

\* C15: the store always holds the five fixture records, in fixture order,
\* each with the id, name, coords, info and metrics other than CCS of its
\* fixture; a GET /api/locations leaves the store as it is
OnlyCCSAndScoreChange ==
  /\ [](/\ Len(LOCATIONS) = Len(RAW_LOCATIONS)
        /\ \A i \in DOMAIN LOCATIONS :
             /\ DOMAIN LOCATIONS[i]
                  = {"id", "name", "coords", "info", "metrics", "s_cpi"}
             /\ LOCATIONS[i].id = RAW_LOCATIONS[i].id
             /\ LOCATIONS[i].name = RAW_LOCATIONS[i].name
             /\ LOCATIONS[i].coords = RAW_LOCATIONS[i].coords
             /\ LOCATIONS[i].info = RAW_LOCATIONS[i].info
             /\ [LOCATIONS[i].metrics EXCEPT !.CCS = Zero]
                  = [RAW_LOCATIONS[i].metrics EXCEPT !.CCS = Zero])
  /\ [][(last'.kind = "locations" /\ inFlight' = inFlight) =>
          LOCATIONS' = LOCATIONS]_vars

\* a GET answered after reports: the answer is sorted, Acropolis of Athens
\* last, while the store keeps it fourth
OnlyCCSAndScoreChangeWitness ==
  /\ last.kind = "locations"
  /\ nReports >= 3
  /\ LOCATIONS # LoadedLocations
  /\ last.body[5].id = 4
  /\ LOCATIONS[4].id = 4

\* the record of a list of locations that has the id
RecordOf(locations, id) ==
  locations[CHOOSE k \in DOMAIN locations : locations[k].id = id]

\* C16: the answer of every GET /api/locations has the records as the
\* store holds them, with the delta of every report answered before it
\* applied to the CCS, nReports reports in all; in the GET that follows the
\* answer to a report, the reported record has that report's delta in its
\* CCS and the s_cpi computed from its metrics
AnsweredReportsAreVisible ==
  [][(last'.kind = "locations" /\ inFlight' = inFlight) =>
       \A body \in {last'.body} :
         /\ \E k1, k4 \in 0..nReports :
              /\ k1 + k4 <= nReports
              /\ RecordOf(body, 1).metrics.CCS = HighOnMonastiraki[k1 + 1]
              /\ RecordOf(body, 4).metrics.CCS = MediumOnAcropolis[k4 + 1]
              /\ RecordOf(body, 5).metrics.CCS
                   = LowOnNationalGarden[nReports - k1 - k4 + 1]
         /\ \A i \in DOMAIN LOCATIONS : RecordOf(body, i) = LOCATIONS[i]
         /\ (HasReply(last) /\ last.status = 200) =>
              \A reply \in {ReplyOf(last)} :
                IsReport(reply) =>
                  \A i \in Named(Get(reply, K_placeName)) :
                    /\ FLe(Clamp(FAdd(LoadedLocations[i].metrics.CCS,
                                      DeltaOf(Get(reply, K_reportIntensity)))),
                           RecordOf(body, i).metrics.CCS)
                    /\ RecordOf(body, i).s_cpi
                         = computeSCPI(RecordOf(body, i).metrics)]_vars

\* the GET that follows the first report answered, a 'high' report on
\* Monastiraki: CCS 87 and s_cpi 76.8
AnsweredReportsWitness ==
  /\ last.kind = "locations"
  /\ nReports = 1
  /\ inFlight = 0
  /\ RecordOf(last.body, 1).metrics.CCS = FromInt(87)
  /\ RecordOf(last.body, 1).s_cpi = FromRatio(768, 10)

\* C17: no step lowers a record's CCS or s_cpi, and a step changes nothing
\* of a record whose CCS is 100
ScoresNeverDecrease ==
  [][\/ LOCATIONS' = LOCATIONS
     \/ \A i \in DOMAIN LOCATIONS :
          /\ ~FLt(LOCATIONS'[i].metrics.CCS, LOCATIONS[i].metrics.CCS)
          /\ ~FLt(LOCATIONS'[i].s_cpi, LOCATIONS[i].s_cpi)
          /\ LOCATIONS[i].metrics.CCS = Hundred =>
               LOCATIONS'[i] = LOCATIONS[i]]_vars

\* a 'high' report on Monastiraki answered as applied with its CCS at 100
\* since the report before
SaturatedReportWitness ==
  /\ nReports = MaxReports
  /\ HasReply(last)
  /\ Get(ReplyOf(last), K_placeName) = Str(N_Monastiraki)
  /\ LOCATIONS[1].metrics.CCS = Hundred
  /\ LOCATIONS[1].s_cpi = FromRatio(778, 10)
  /\ LOCATIONS[4] = LoadedLocations[4]
  /\ LOCATIONS[5] = LoadedLocations[5]

====
